---- MODULE Spec2Model ----
(***************************************************************************)
(* Model of the Java toolchain pipeline of src/src/java.py (JavaController) *)
(* with the Termux variant of src/src/javaWtermux.py and the streaming      *)
(* downloader of src/src/tools.py.                                          *)
(*                                                                          *)
(* The host is the state: the process environment (JAVA_HOME, PATH), the    *)
(* directories that may hold a java binary, the download directory, the     *)
(* installation root, the shell profile file and the Windows persistent     *)
(* variables.  One action per public operation of the controller.           *)
(* The file name resolver of src/src/tools.py is examined call by call     *)
(* under SpecResolve.                                                       *)
(***************************************************************************)
EXTENDS Integers, Sequences, FiniteSets, TLC

VARIABLES
    system,            \* self.system: the platform key
    envJavaHome,       \* os.environ['JAVA_HOME'] of the current process, or None
    envPath,           \* os.environ['PATH']: the directories whose bin/ is searched, in order
    whichAvailable,    \* the which / where executable can be started
    programFiles,      \* the ProgramFiles* variables set in the environment (Windows)
    bin,               \* per directory: the state of the directory and of its bin/java
    profileWritable,   \* the profile file can be opened for append / setx succeeds
    dlDirExists,       \* self.downloads_dir exists
    downloads,         \* per artifact name: -1 (no file) or the number of bytes in the file
    instDirExists,     \* self.installation_dir exists
    current_java_path, \* self.current_java_path
    profile,           \* the JAVA_HOME exports appended to the shell profile file
    registry,          \* the persistent JAVA_HOME written by setx (Windows)
    baseEnv,           \* the environment a process started from the login shell inherits
    resolver,          \* a call of extract_filename_from_url: its arguments, what the
                       \* HEAD request meets, and the name it returns
    last               \* the last call on the controller and what it returned

vars == <<system, envJavaHome, envPath, whichAvailable, programFiles, bin,
          profileWritable, dlDirExists, downloads, instDirExists,
          current_java_path, profile, registry, baseEnv, resolver, last>>

hostVars == <<system, envJavaHome, envPath, whichAvailable, programFiles, bin,
              profileWritable, dlDirExists, downloads, instDirExists,
              profile, registry, baseEnv>>

None == "None"
Raise == "RAISE"

\* ------------------------------------------------------------------ bounds
\* At most this many of the platform's candidate directories exist on a host
\* drawn for the detector.
MaxCommonDirs == 2

\* ------------------------------------------------------------ the catalog
Systems == {"windows", "linux", "darwin", "termux", "freebsd"}

\* JAVA_DOWNLOADS: the platform keys that have an entry.
CatalogSystems == {"windows", "linux", "darwin", "termux"}

\* JAVA_DOWNLOADS[system]: the version keys.
CatalogVersions == {"11", "17", "21"}

\* ------------------------------------------------- java binaries and probes
\* The state of a directory and of the java binary under its bin/.
BinStates == {"nodir", "nobin", "noexec", "fail", "noline", "noquote",
              "v1", "v1_8", "v11", "v17", "v21", "v11_stdout"}

\* What running <dir>/bin/java -version gives: whether the file exists, whether
\* the process starts, its exit code, the stream that carries the output,
\* whether a line holds the word "version", whether that line holds a double
\* quote, and the quoted text split at the dots.
ProbeOf(b) ==
    CASE b = "nodir"      -> [exists |-> FALSE, starts |-> FALSE, exit |-> 1, stream |-> "stderr", hasWord |-> FALSE, hasQuote |-> FALSE, quoted |-> <<>>]
      [] b = "nobin"      -> [exists |-> FALSE, starts |-> FALSE, exit |-> 1, stream |-> "stderr", hasWord |-> FALSE, hasQuote |-> FALSE, quoted |-> <<>>]
      [] b = "noexec"     -> [exists |-> TRUE,  starts |-> FALSE, exit |-> 1, stream |-> "stderr", hasWord |-> FALSE, hasQuote |-> FALSE, quoted |-> <<>>]
      [] b = "fail"       -> [exists |-> TRUE,  starts |-> TRUE,  exit |-> 1, stream |-> "stderr", hasWord |-> TRUE,  hasQuote |-> FALSE, quoted |-> <<>>]
      [] b = "noline"     -> [exists |-> TRUE,  starts |-> TRUE,  exit |-> 0, stream |-> "stderr", hasWord |-> FALSE, hasQuote |-> FALSE, quoted |-> <<>>]
      [] b = "noquote"    -> [exists |-> TRUE,  starts |-> TRUE,  exit |-> 0, stream |-> "stderr", hasWord |-> TRUE,  hasQuote |-> FALSE, quoted |-> <<>>]
      [] b = "v1"         -> [exists |-> TRUE,  starts |-> TRUE,  exit |-> 0, stream |-> "stderr", hasWord |-> TRUE,  hasQuote |-> TRUE,  quoted |-> <<"1">>]
      [] b = "v1_8"       -> [exists |-> TRUE,  starts |-> TRUE,  exit |-> 0, stream |-> "stderr", hasWord |-> TRUE,  hasQuote |-> TRUE,  quoted |-> <<"1", "8", "0_311">>]
      [] b = "v11"        -> [exists |-> TRUE,  starts |-> TRUE,  exit |-> 0, stream |-> "stderr", hasWord |-> TRUE,  hasQuote |-> TRUE,  quoted |-> <<"11", "0", "2">>]
      [] b = "v17"        -> [exists |-> TRUE,  starts |-> TRUE,  exit |-> 0, stream |-> "stderr", hasWord |-> TRUE,  hasQuote |-> TRUE,  quoted |-> <<"17">>]
      [] b = "v21"        -> [exists |-> TRUE,  starts |-> TRUE,  exit |-> 0, stream |-> "stderr", hasWord |-> TRUE,  hasQuote |-> TRUE,  quoted |-> <<"21">>]
      [] b = "v11_stdout" -> [exists |-> TRUE,  starts |-> TRUE,  exit |-> 0, stream |-> "stdout", hasWord |-> TRUE,  hasQuote |-> TRUE,  quoted |-> <<"11", "0", "2">>]

\* Python truthiness of an Optional[str].
Truthy(v) == v \notin {None, ""}

\* The parsing of the output in _get_java_version (java.py 103-118): the
\* text between the first two quotes of the line that holds "version", split
\* at the dots; parts[1] when parts[0] is "1", else parts[0].  A non-zero exit
\* (CalledProcessError) and a line without quotes or a lone "1" (IndexError)
\* give None; so does an output without the word.
ParseVersion(p) ==
    IF ~p.exists \/ ~p.starts THEN Raise
    ELSE IF p.exit # 0 THEN None
    ELSE IF ~p.hasWord THEN None
    ELSE IF ~p.hasQuote THEN None
    ELSE IF p.quoted[1] = "1"
         THEN (IF Len(p.quoted) >= 2 THEN p.quoted[2] ELSE None)
         ELSE p.quoted[1]

\* _get_java_version(java_path): the feature version printed by the binary,
\* or None.  A binary that is missing or cannot be started makes
\* subprocess.run raise FileNotFoundError / PermissionError, which the except
\* clause (java.py 115) does not name.
get_java_version(b) == ParseVersion(ProbeOf(b))

\* ------------------------------------------------------ candidate directories
WinSubdirs(pf) ==
    CASE pf = "ProgramFiles"      -> <<"PF/Java", "PF/AdoptOpenJDK", "PF/OpenJDK", "PF/Amazon Corretto">>
      [] pf = "ProgramFiles(x86)" -> <<"PF86/Java", "PF86/AdoptOpenJDK", "PF86/OpenJDK", "PF86/Amazon Corretto">>
      [] pf = "ProgramW6432"      -> <<"PW/Java", "PW/AdoptOpenJDK", "PW/OpenJDK", "PW/Amazon Corretto">>

ProgramFilesVars == <<"ProgramFiles", "ProgramFiles(x86)", "ProgramW6432">>

RECURSIVE WinPaths(_, _)
WinPaths(i, set) ==
    IF i > Len(ProgramFilesVars) THEN <<>>
    ELSE (IF ProgramFilesVars[i] \in set THEN WinSubdirs(ProgramFilesVars[i]) ELSE <<>>)
         \o WinPaths(i + 1, set)

\* The Termux branch of _get_common_java_paths() (javaWtermux.py 31-38).
termux_common_java_paths ==
    <<"$PREFIX/usr/lib/jvm", "$PREFIX/usr/java", "$PREFIX/home/java">>

\* _get_common_java_paths(): the candidate directories of the platform.
get_common_java_paths(sys, pfs) ==
    CASE sys = "windows" -> WinPaths(1, pfs)
      [] sys = "darwin"  -> <<"/Library/Java/JavaVirtualMachines", "/System/Library/Java/JavaVirtualMachines">>
      [] sys = "termux"  -> termux_common_java_paths
      [] OTHER           -> <<"/usr/lib/jvm", "/usr/java", "/opt/java", "/opt/openjdk">>

Range(s) == {s[i] : i \in DOMAIN s}

\* The top-level directory each catalog archive unpacks to.
TopDir(version) == "jdk-" \o version

JdkDirs == {TopDir(v) : v \in CatalogVersions}

\* Every directory of the host that can hold a java binary.
Locs(sys) ==
    {"ext", "usr"} \cup JdkDirs
    \cup Range(get_common_java_paths(sys, Range(ProgramFilesVars)))

\* ------------------------------------------------------------- detection
\* What `which java` / `where java.exe` prints first: the first directory of
\* PATH that holds an executable java, or None (exit status 1).
RECURSIVE WhichFrom(_, _, _)
WhichFrom(bins, path, i) ==
    IF i > Len(path) THEN None
    ELSE IF ProbeOf(bins[path[i]]).exists /\ ProbeOf(bins[path[i]]).starts THEN path[i]
    ELSE WhichFrom(bins, path, i + 1)

Which == WhichFrom(bin, envPath, 1)

DetResult(found, version, path, raised, probes) ==
    [found |-> found, version |-> version, path |-> path, raised |-> raised, probes |-> probes]

Probe(tier, loc) == [tier |-> tier, loc |-> loc]

\* path.exists() and java_bin.exists() (java.py 77-79).
HoldsJava(p) == bin[p] # "nodir" /\ ProbeOf(bin[p]).exists

\* The loop over common_paths (java.py 76-84), from index i on; ScanProbed
\* is the body of the loop once the version v of paths[i] is known.
RECURSIVE ScanCommon(_, _, _), ScanProbed(_, _, _, _)
ScanCommon(paths, i, probes) ==
    IF i > Len(paths) THEN DetResult(FALSE, None, None, FALSE, probes)
    ELSE IF HoldsJava(paths[i])
    THEN ScanProbed(paths, i, get_java_version(bin[paths[i]]),
                    Append(probes, Probe(3, paths[i])))
    ELSE ScanCommon(paths, i + 1, probes)

ScanProbed(paths, i, v, probes) ==
    IF v = Raise THEN DetResult(FALSE, None, None, TRUE, probes)
    ELSE IF Truthy(v) THEN DetResult(TRUE, v, paths[i], FALSE, probes)
    ELSE ScanCommon(paths, i + 1, probes)

\* The PATH tier once the version v of the java that which printed is known
\* (java.py 64-69), and what follows it.
PathProbed(java_path, v, probes) ==
    IF v = Raise THEN DetResult(FALSE, None, None, TRUE, probes)
    ELSE IF Truthy(v) THEN DetResult(TRUE, v, java_path, FALSE, probes)
    ELSE ScanCommon(get_common_java_paths(system, programFiles), 1, probes)

\* The PATH tier (java.py 53-72) on what which printed, and what follows it:
\* which that cannot be started raises FileNotFoundError, which the except
\* clause (java.py 71) does not name; exit status 1 goes on to the candidate
\* directories.
TierPathOn(java_path, probes) ==
    IF ~whichAvailable THEN DetResult(FALSE, None, None, TRUE, probes)
    ELSE IF java_path = None
    THEN PathProbed(None, None, probes)
    ELSE PathProbed(java_path, get_java_version(bin[java_path]),
                    Append(probes, Probe(2, java_path)))

TierPath(probes) == TierPathOn(Which, probes)

\* The JAVA_HOME tier once the version v of its bin/java is known (java.py
\* 49-51), and what follows it.
HomeProbed(v, probes) ==
    IF v = Raise THEN DetResult(FALSE, None, None, TRUE, probes)
    ELSE IF Truthy(v) THEN DetResult(TRUE, v, envJavaHome, FALSE, probes)
    ELSE TierPath(probes)

\* The JAVA_HOME tier (java.py 46-51) and what follows it.
TierHome ==
    IF envJavaHome # None /\ bin[envJavaHome] # "nodir"
    THEN HomeProbed(get_java_version(bin[envJavaHome]), <<Probe(1, envJavaHome)>>)
    ELSE TierPath(<<>>)

\* JAVA_HOME tried only after PATH and the candidate directories found nothing.
HomeLast(r) ==
    IF r.found \/ r.raised \/ envJavaHome = None THEN r
    ELSE IF bin[envJavaHome] = "nodir" THEN r
    ELSE IF ~ProbeOf(bin[envJavaHome]).exists \/ ~ProbeOf(bin[envJavaHome]).starts
    THEN [r EXCEPT !.raised = TRUE]
    ELSE IF Truthy(get_java_version(bin[envJavaHome]))
    THEN DetResult(TRUE, get_java_version(bin[envJavaHome]), envJavaHome, FALSE,
                   Append(r.probes, Probe(1, envJavaHome)))
    ELSE [r EXCEPT !.probes = Append(r.probes, Probe(1, envJavaHome))]

\* check_existing_java with the PATH tier tried before JAVA_HOME.
check_existing_java_path_first == HomeLast(TierPath(<<>>))

\* check_existing_java(): (found, version, path), or an exception escaping.
check_existing_java == TierHome

\* ------------------------------------------------------------- artifacts
\* The file names of the "termux" entry of JAVA_DOWNLOADS (javaWtermux.py 5-9).
TermuxArtifactName(version) ==
    CASE version = "11" -> <<"openjdk-11", "0", "2_linux-aarch64_bin", "tar", "gz">>
      [] version = "17" -> <<"openjdk-17_linux-aarch64_bin", "tar", "gz">>
      [] version = "21" -> <<"openjdk-21_linux-aarch64_bin", "tar", "gz">>

\* The file name of each catalog URL, as its dot-separated parts (java.py
\* 13-29).
ArtifactName(sys, version) ==
    CASE sys = "windows" /\ version = "11" -> <<"openjdk-11", "0", "2_windows-x64_bin", "zip">>
      [] sys = "windows" /\ version = "17" -> <<"openjdk-17_windows-x64_bin", "zip">>
      [] sys = "windows" /\ version = "21" -> <<"openjdk-21_windows-x64_bin", "zip">>
      [] sys = "linux"   /\ version = "11" -> <<"openjdk-11", "0", "2_linux-x64_bin", "tar", "gz">>
      [] sys = "linux"   /\ version = "17" -> <<"openjdk-17_linux-x64_bin", "tar", "gz">>
      [] sys = "linux"   /\ version = "21" -> <<"openjdk-21_linux-x64_bin", "tar", "gz">>
      [] sys = "darwin"  /\ version = "11" -> <<"openjdk-11", "0", "2_osx-x64_bin", "tar", "gz">>
      [] sys = "darwin"  /\ version = "17" -> <<"openjdk-17_macos-x64_bin", "tar", "gz">>
      [] sys = "darwin"  /\ version = "21" -> <<"openjdk-21_macos-x64_bin", "tar", "gz">>
      [] sys = "termux" -> TermuxArtifactName(version)

\* JAVA_DOWNLOADS[system][version]: the URL as its '/'-separated segments, the
\* last one being the file name.
JAVA_DOWNLOADS(sys, version) ==
    <<"https:", "", "download.java.net", "java", "GA", "jdk" \o version, "GPL",
      ArtifactName(sys, version)>>

\* download_url.split('/')[-1] (java.py 182).
FileNameOf(url) == url[Len(url)]

\* The files download_java can create in the download directory of a host.
ArtifactNames(sys) ==
    IF sys \in CatalogSystems THEN {ArtifactName(sys, v) : v \in CatalogVersions} ELSE {}

\* The version of the archive stored under a file name.
VersionOfArtifact(sys, name) == CHOOSE v \in CatalogVersions : ArtifactName(sys, v) = name

\* A suffix made of the last two dot-separated parts.
Suffix_last_two(name) ==
    IF Len(name) > 2 THEN "." \o name[Len(name) - 1] \o "." \o name[Len(name)]
    ELSE IF Len(name) > 1 THEN "." \o name[Len(name)] ELSE ""

\* Path.suffix: the last dot-separated part, with its dot.
Suffix(name) == IF Len(name) > 1 THEN "." \o name[Len(name)] ELSE ""

NoPath == <<>>

\* ------------------------------------------------------------ more bounds
\* The length in bytes of every archive the server holds.
BodyLen == 2

\* install_java is not called once the profile file holds this many exports.
MaxProfile == 2

\* The versions a caller asks for: one of the catalog and one outside it.
RequestVersions == {"11", "8"}

\* ------------------------------------------------------------- download_file
RECURSIVE Sum(_)
Sum(s) == IF s = <<>> THEN 0 ELSE s[1] + Sum(Tail(s))

\* The chunks a response delivers before it ends or breaks.
ChunkSeqs ==
    {s \in UNION {[1..n -> 1..BodyLen] : n \in 0..BodyLen} : Sum(s) <= BodyLen}

\* What the network does to one GET: whether the connection is made, the
\* declared Content-Length (-1: none), the chunks delivered, and whether the
\* transport breaks after them.  A response that does not break delivers the
\* whole body.
NetOutcomes ==
    {n \in [connect : BOOLEAN, declared : {-1, BodyLen}, chunks : ChunkSeqs, fails : BOOLEAN] :
        /\ (~n.connect => n.chunks = <<>> /\ n.fails)
        /\ (n.fails <=> Sum(n.chunks) < BodyLen)}

\* A progress bar that is given the running total instead of the increment.
ChunkStep_cumulative(acc, chunk) ==
    [written |-> acc.written + chunk,
     seen |-> acc.seen + chunk,
     progress |-> acc.progress + (acc.seen + chunk)]

\* One pass of the chunk loop of download_file (tools.py 166-169): the chunk
\* is written, response.num_bytes_downloaded has grown by it, and the
\* progress bar is advanced by the difference to the value remembered.
ChunkStep(acc, chunk) ==
    [written |-> acc.written + chunk,
     seen |-> acc.seen + chunk,
     progress |-> acc.progress + ((acc.seen + chunk) - acc.seen)]

\* The chunk loop of download_file (tools.py 165-169): bytes written to the
\* file and bytes reported to the progress bar after the chunks from i on.
RECURSIVE WriteChunks(_, _, _)
WriteChunks(chunks, i, acc) ==
    IF i > Len(chunks) THEN acc
    ELSE WriteChunks(chunks, i + 1, ChunkStep(acc, chunks[i]))

\* download_file(url, filename) (tools.py 157-169): the destination is opened
\* for writing before the request is made; a missing Content-Length raises
\* KeyError; the function has no return statement, so a call that completes
\* returns None.
download_file(net) ==
    IF ~net.connect
    THEN [size |-> 0, progress |-> 0, raised |-> TRUE, ret |-> None]
    ELSE IF net.declared = -1
    THEN [size |-> 0, progress |-> 0, raised |-> TRUE, ret |-> None]
    ELSE LET w == WriteChunks(net.chunks, 1, [written |-> 0, seen |-> 0, progress |-> 0]) IN
         [size |-> w.written, progress |-> w.progress, raised |-> net.fails, ret |-> None]

\* ------------------------------------------------------------ download_java
NoDet == DetResult(FALSE, None, None, FALSE, <<>>)

\* A detection that is run whether or not force is set.
Detection_always(force) == check_existing_java

\* The detection download_java / install_java run first: none under force.
Detection(force) == IF force THEN NoDet ELSE check_existing_java

\* A skip that reports success.
SkipStatus_success == "True"

\* The status returned when an existing installation is found (java.py 170, 211).
SkipStatus == "False"

\* A download directory created before the detection is consulted.
DownloadsDirAfter_eager(stopped) == TRUE

\* The download directory after download_java: created only past the
\* detection and the version check (java.py 166-178).
DownloadsDirAfter(stopped) == IF stopped THEN dlDirExists ELSE TRUE

\* What download_java returns and leaves when nothing is changed.
DownloadBase(det) ==
    [status |-> "False", msg |-> "", det |-> det, request |-> FALSE, progress |-> 0,
     dlDir |-> dlDirExists, downloads |-> downloads, cjp |-> current_java_path]

\* A download_java that records the file before it looks at the result of
\* the transfer.
DownloadFetched_records_first(name, d, base) ==
    IF d.raised
    THEN [base EXCEPT !.msg = "Error downloading Java", !.request = TRUE,
                      !.progress = d.progress, !.dlDir = DownloadsDirAfter(FALSE),
                      !.downloads = [downloads EXCEPT ![name] = d.size]]
    ELSE IF d.ret = None
    THEN [base EXCEPT !.msg = "Failed to download Java", !.request = TRUE,
                      !.progress = d.progress, !.dlDir = DownloadsDirAfter(FALSE),
                      !.downloads = [downloads EXCEPT ![name] = d.size], !.cjp = name]
    ELSE [base EXCEPT !.status = "True", !.msg = "Successfully downloaded Java",
                      !.request = TRUE, !.progress = d.progress,
                      !.dlDir = DownloadsDirAfter(FALSE),
                      !.downloads = [downloads EXCEPT ![name] = d.size], !.cjp = name]

\* A download_java that removes the file of a transfer that raised.
DownloadFetched_removes_partial(name, d, base) ==
    IF d.raised
    THEN [base EXCEPT !.msg = "Error downloading Java", !.request = TRUE,
                      !.progress = d.progress, !.dlDir = DownloadsDirAfter(FALSE)]
    ELSE IF d.ret = None
    THEN [base EXCEPT !.msg = "Failed to download Java", !.request = TRUE,
                      !.progress = d.progress, !.dlDir = DownloadsDirAfter(FALSE),
                      !.downloads = [downloads EXCEPT ![name] = d.size]]
    ELSE [base EXCEPT !.status = "True", !.msg = "Successfully downloaded Java",
                      !.request = TRUE, !.progress = d.progress,
                      !.dlDir = DownloadsDirAfter(FALSE),
                      !.downloads = [downloads EXCEPT ![name] = d.size], !.cjp = name]

\* The transfer of download_java (java.py 186-192) once download_file has
\* run with result d: an exception goes to the handler (java.py 194-195), a
\* falsy return value is a failed download.
DownloadFetched(name, d, base) ==
    IF d.raised
    THEN [base EXCEPT !.msg = "Error downloading Java", !.request = TRUE,
                      !.progress = d.progress, !.dlDir = DownloadsDirAfter(FALSE),
                      !.downloads = [downloads EXCEPT ![name] = d.size]]
    ELSE IF d.ret = None
    THEN [base EXCEPT !.msg = "Failed to download Java", !.request = TRUE,
                      !.progress = d.progress, !.dlDir = DownloadsDirAfter(FALSE),
                      !.downloads = [downloads EXCEPT ![name] = d.size]]
    ELSE [base EXCEPT !.status = "True", !.msg = "Successfully downloaded Java",
                      !.request = TRUE, !.progress = d.progress,
                      !.dlDir = DownloadsDirAfter(FALSE),
                      !.downloads = [downloads EXCEPT ![name] = d.size], !.cjp = name]

\* A download_java that fetches the archive whether or not the file is there.
DownloadNamed_always_fetches(name, net, base) ==
    DownloadFetched(name, download_file(net), base)

\* download_java past the catalog lookup (java.py 177-192), for the file name
\* of the URL.
DownloadNamed(name, net, base) ==
    IF downloads[name] = -1
    THEN DownloadFetched(name, download_file(net), base)
    ELSE [base EXCEPT !.status = "True", !.msg = "Successfully downloaded Java",
                      !.dlDir = DownloadsDirAfter(FALSE), !.cjp = name]

\* A download_java that falls back to version 11 for a version the catalog
\* does not hold.
DownloadDetected_default_version(version, net, det, base) ==
    IF det.raised
    THEN [base EXCEPT !.status = Raise, !.msg = "exception"]
    ELSE IF det.found
    THEN [base EXCEPT !.status = SkipStatus, !.msg = "already installed",
                      !.dlDir = DownloadsDirAfter(TRUE)]
    ELSE IF system \notin CatalogSystems
    THEN [base EXCEPT !.msg = "Error downloading Java", !.dlDir = DownloadsDirAfter(TRUE)]
    ELSE IF version \notin CatalogVersions
    THEN DownloadNamed(FileNameOf(JAVA_DOWNLOADS(system, "11")), net, base)
    ELSE DownloadNamed(FileNameOf(JAVA_DOWNLOADS(system, version)), net, base)

\* download_java once the detection has run with result det (java.py 169-195).
DownloadDetected(version, net, det, base) ==
    IF det.raised
    THEN [base EXCEPT !.status = Raise, !.msg = "exception"]
    ELSE IF det.found
    THEN [base EXCEPT !.status = SkipStatus, !.msg = "already installed",
                      !.dlDir = DownloadsDirAfter(TRUE)]
    ELSE IF system \notin CatalogSystems
    THEN [base EXCEPT !.msg = "Error downloading Java", !.dlDir = DownloadsDirAfter(TRUE)]
    ELSE IF version \notin CatalogVersions
    THEN [base EXCEPT !.msg = "Unsupported Java version", !.dlDir = DownloadsDirAfter(TRUE)]
    ELSE DownloadNamed(FileNameOf(JAVA_DOWNLOADS(system, version)), net, base)

DownloadWith(version, net, det) == DownloadDetected(version, net, det, DownloadBase(det))

\* download_java(version, force): what it returns and the state it leaves.
DownloadPost(version, force, net) == DownloadWith(version, net, Detection(force))

\* The response of a call that makes no request is not drawn.
NoNet == [connect |-> TRUE, declared |-> BodyLen, chunks |-> <<BodyLen>>, fails |-> FALSE]

DownloadApply(version, force, net, r) ==
    /\ r.request \/ net = NoNet
    /\ dlDirExists' = r.dlDir
    /\ downloads' = r.downloads
    /\ current_java_path' = r.cjp
    /\ last' = [op |-> "download_java", version |-> version, force |-> force,
                status |-> r.status, msg |-> r.msg, det |-> r.det, request |-> r.request,
                stage |-> "-", net |-> net, progress |-> r.progress, ran |-> <<>>]
    /\ UNCHANGED <<system, envJavaHome, envPath, whichAvailable, programFiles, bin,
                   profileWritable, instDirExists, profile, registry, baseEnv, resolver>>

DownloadJava(version, force, net) ==
    DownloadApply(version, force, net, DownloadPost(version, force, net))

\* ------------------------------------------------------------- install_java
\* What the host decides during one install_java: whether pkg update/install
\* succeed (Termux), the binary the archive holds, and the entry glob("jdk*")
\* yields first.
InstallInputs ==
    [pkgOk : BOOLEAN, works : BOOLEAN, pick : JdkDirs]

\* The children of the installation root that match jdk*.
JdkChildren(bins) == {d \in JdkDirs : bins[d] # "nodir"}

\* extractall of the archive into the installation root (java.py 239-249): a
\* complete archive unpacks its top directory, a truncated one raises.
ExtractAll(name, x) ==
    LET v == VersionOfArtifact(system, name)
        d == TopDir(v)
        unpacked == IF x.works THEN "v" \o v ELSE "fail" IN
    IF downloads[name] = BodyLen
    THEN [raised |-> FALSE,
          bin |-> IF bin[d] \in {"nodir", "nobin"} THEN [bin EXCEPT ![d] = unpacked] ELSE bin]
    ELSE [raised |-> TRUE, bin |-> bin]

extract_zip(name, x) == ExtractAll(name, x)

extract_tar_gz(name, x) == ExtractAll(name, x)

\* The Termux branch of _set_environment_variables() (javaWtermux.py 56-69):
\* the exports are appended to ~/.profile and os.environ is updated.
termux_set_environment_variables(jdk_dir) ==
    [raised |-> FALSE, profile |-> Append(profile, jdk_dir), registry |-> registry,
     envJavaHome |-> jdk_dir, envPath |-> <<jdk_dir>> \o envPath]

\* _set_environment_variables(): jdk_dir = next(glob("jdk*")), then setx on
\* Windows (java.py 256-259) or an append to the shell's profile file
\* (java.py 260-267); os.environ is left as it is.  No jdk* child raises
\* StopIteration, a failing setx or an unwritable profile raises too.
set_environment_variables(bins, x) ==
    IF JdkChildren(bins) = {} \/ ~profileWritable
    THEN [raised |-> TRUE, profile |-> profile, registry |-> registry,
          envJavaHome |-> envJavaHome, envPath |-> envPath]
    ELSE IF system = "termux"
    THEN termux_set_environment_variables(x.pick)
    ELSE IF system = "windows"
    THEN [raised |-> FALSE, profile |-> profile, registry |-> x.pick,
          envJavaHome |-> envJavaHome, envPath |-> envPath]
    ELSE [raised |-> FALSE, profile |-> Append(profile, x.pick), registry |-> registry,
          envJavaHome |-> envJavaHome, envPath |-> envPath]

\* _verify_installation(): `java -version` resolved on the process PATH
\* (java.py 269-285).  No java on PATH raises FileNotFoundError, which only
\* install_java catches.
VerifyOutput(p) ==
    IF p.exit # 0 THEN "False"
    ELSE IF p.stream = "stderr" /\ p.hasWord THEN "True" ELSE "False"

VerifyOn(bins, w) == IF w = None THEN Raise ELSE VerifyOutput(ProbeOf(bins[w]))

verify_installation(bins, path) == VerifyOn(bins, WhichFrom(bins, path, 1))

\* pkg update / pkg install fail on Termux (javaWtermux.py 83-86).
TermuxPkgFails(x) == system = "termux" /\ ~x.pkgOk

\* next(glob("jdk*/bin/java")) finds no binary to chmod (javaWtermux.py 91-93).
TermuxChmodFails(bins) ==
    system = "termux" /\ {d \in JdkChildren(bins) : ProbeOf(bins[d]).exists} = {}

\* The installation root after install_java: created only past the detection
\* and the check of the downloaded file (java.py 207-218).
InstallDirAfter(stopped) == IF stopped THEN instDirExists ELSE TRUE

\* The steps only the Termux variant of install_java runs (javaWtermux.py
\* 82-86, 90-93), as the trace of one.
TermuxRan(step) == IF system = "termux" THEN <<step>> ELSE <<>>

\* What install_java returns and leaves when nothing is changed.
InstallBase(det) ==
    [status |-> "False", msg |-> "", det |-> det, stage |-> "detect", ran |-> <<>>,
     instDir |-> instDirExists, bin |-> bin, profile |-> profile,
     registry |-> registry, envJavaHome |-> envJavaHome, envPath |-> envPath]

\* An install_java that undoes the extraction and the configuration when the
\* verification does not succeed.
InstallVerified_rolls_back(ok, afterC) ==
    IF ok = "True"
    THEN [afterC EXCEPT !.status = "True", !.msg = "Java installed successfully",
                        !.stage = "done"]
    ELSE [afterC EXCEPT !.msg = IF ok = Raise THEN "Error installing Java"
                                ELSE "Java installation verification failed",
                        !.stage = "verify", !.bin = bin, !.profile = profile,
                        !.registry = registry, !.envJavaHome = envJavaHome,
                        !.envPath = envPath]

\* The end of install_java (java.py 231-234) on the result ok of
\* _verify_installation; an exception goes to the handler (java.py 236-237).
InstallVerified(ok, afterC) ==
    IF ok = Raise
    THEN [afterC EXCEPT !.msg = "Error installing Java", !.stage = "verify"]
    ELSE IF ok = "True"
    THEN [afterC EXCEPT !.status = "True", !.msg = "Java installed successfully",
                        !.stage = "done"]
    ELSE [afterC EXCEPT !.msg = "Java installation verification failed",
                        !.stage = "verify"]

\* An install_java that goes on to the verification whatever the
\* configuration did.
InstallConfigured_verifies_anyway(bins, c, afterE) ==
    InstallVerified(verify_installation(bins, c.envPath),
                    [afterE EXCEPT !.profile = c.profile, !.registry = c.registry,
                                   !.envJavaHome = c.envJavaHome,
                                   !.envPath = c.envPath,
                                   !.ran = Append(@, "_verify_installation")])

\* install_java once _set_environment_variables has run with result c
\* (java.py 229-234) on the extracted tree bins.
InstallConfigured(bins, c, afterE) ==
    IF c.raised
    THEN [afterE EXCEPT !.msg = "Error installing Java", !.stage = "configure"]
    ELSE InstallVerified(verify_installation(bins, c.envPath),
                         [afterE EXCEPT !.profile = c.profile, !.registry = c.registry,
                                        !.envJavaHome = c.envJavaHome,
                                        !.envPath = c.envPath,
                                        !.ran = Append(@, "_verify_installation")])

\* install_java once the archive has been extracted with result e (java.py
\* 221-234; javaWtermux.py 91-93 for the chmod).
InstallExtracted(e, x, afterE) ==
    IF e.raised
    THEN [afterE EXCEPT !.msg = "Error installing Java", !.stage = "extract"]
    ELSE IF TermuxChmodFails(e.bin)
    THEN [afterE EXCEPT !.msg = "Error installing Java", !.stage = "chmod",
                        !.ran = @ \o TermuxRan("chmod")]
    ELSE InstallConfigured(e.bin, set_environment_variables(e.bin, x),
                           [afterE EXCEPT !.ran = @ \o TermuxRan("chmod")
                                                    \o <<"_set_environment_variables">>])

\* install_java past the dispatch on the suffix (java.py 218-226): the
\* installation root exists and the extractor chosen has run with result e.
InstallArchive(e, extractor, x, base) ==
    InstallExtracted(e, x, [base EXCEPT !.instDir = InstallDirAfter(FALSE), !.bin = e.bin,
                                        !.ran = TermuxRan("pkg") \o <<extractor>>])

\* An install_java that does not look for the downloaded file.
InstallDetected_unchecked(x, det, base) ==
    IF det.raised
    THEN [base EXCEPT !.status = Raise, !.msg = "exception"]
    ELSE IF det.found
    THEN [base EXCEPT !.status = SkipStatus, !.msg = "already installed",
                      !.instDir = InstallDirAfter(TRUE)]
    ELSE IF TermuxPkgFails(x)
    THEN [base EXCEPT !.msg = "Error installing Java", !.stage = "pkg",
                      !.ran = TermuxRan("pkg")]
    ELSE IF current_java_path = NoPath
    THEN [base EXCEPT !.msg = "Error installing Java", !.stage = "extract",
                      !.instDir = InstallDirAfter(FALSE), !.ran = TermuxRan("pkg")]
    ELSE IF Suffix(current_java_path) = ".zip"
    THEN InstallArchive(extract_zip(current_java_path, x), "_extract_zip", x, base)
    ELSE IF Suffix(current_java_path) = ".gz"
    THEN InstallArchive(extract_tar_gz(current_java_path, x), "_extract_tar_gz", x, base)
    ELSE [base EXCEPT !.msg = "Unsupported archive format", !.stage = "extract",
                      !.instDir = InstallDirAfter(FALSE), !.ran = TermuxRan("pkg")]

\* install_java once the detection has run with result det (java.py 210-237).
InstallDetected(x, det, base) ==
    IF det.raised
    THEN [base EXCEPT !.status = Raise, !.msg = "exception"]
    ELSE IF det.found
    THEN [base EXCEPT !.status = SkipStatus, !.msg = "already installed",
                      !.instDir = InstallDirAfter(TRUE)]
    ELSE IF current_java_path = NoPath \/ downloads[current_java_path] = -1
    THEN [base EXCEPT !.msg = "No Java download found", !.stage = "check",
                      !.instDir = InstallDirAfter(TRUE)]
    ELSE IF TermuxPkgFails(x)
    THEN [base EXCEPT !.msg = "Error installing Java", !.stage = "pkg",
                      !.ran = TermuxRan("pkg")]
    ELSE IF Suffix(current_java_path) = ".zip"
    THEN InstallArchive(extract_zip(current_java_path, x), "_extract_zip", x, base)
    ELSE IF Suffix(current_java_path) = ".gz"
    THEN InstallArchive(extract_tar_gz(current_java_path, x), "_extract_tar_gz", x, base)
    ELSE [base EXCEPT !.msg = "Unsupported archive format", !.stage = "extract",
                      !.instDir = InstallDirAfter(FALSE), !.ran = TermuxRan("pkg")]

InstallWith(x, det) == InstallDetected(x, det, InstallBase(det))

\* install_java(force): what it returns and the state it leaves.
InstallPost(force, x) == InstallWith(x, Detection(force))

\* The inputs a call does not reach are not drawn.
InputsUsed(stage, x) ==
    /\ (system # "termux" \/ stage \in {"detect", "check"}) => x.pkgOk
    /\ stage \in {"detect", "check", "pkg", "extract"} => x.works

InstallApply(force, x, r) ==
    /\ Len(profile) < MaxProfile
    /\ x.pick \in JdkChildren(r.bin) \/ (JdkChildren(r.bin) = {} /\ x.pick = TopDir("11"))
    /\ InputsUsed(r.stage, x)
    /\ instDirExists' = r.instDir
    /\ bin' = r.bin
    /\ profile' = r.profile
    /\ registry' = r.registry
    /\ envJavaHome' = r.envJavaHome
    /\ envPath' = r.envPath
    /\ last' = [op |-> "install_java", version |-> None, force |-> force,
                status |-> r.status, msg |-> r.msg, det |-> r.det, request |-> FALSE,
                stage |-> r.stage, net |-> NoNet, progress |-> 0, ran |-> r.ran]
    /\ UNCHANGED <<system, whichAvailable, programFiles, profileWritable, dlDirExists,
                   downloads, current_java_path, baseEnv, resolver>>

InstallJava(force, x) == InstallApply(force, x, InstallPost(force, x))

\* ------------------------------------------------------------------ cleanup
\* A cleanup that removes the installation root together with the downloads.
Cleanup_removes_installation(removed) ==
    /\ IF dlDirExists /\ removed
       THEN /\ dlDirExists' = FALSE
            /\ downloads' = [n \in DOMAIN downloads |-> -1]
            /\ instDirExists' = FALSE
            /\ bin' = [l \in DOMAIN bin |-> IF l \in JdkDirs THEN "nodir" ELSE bin[l]]
       ELSE UNCHANGED <<dlDirExists, downloads, instDirExists, bin>>
    /\ last' = [op |-> "cleanup", version |-> None, force |-> FALSE,
                status |-> None, msg |-> "", det |-> NoDet, request |-> FALSE, stage |-> "-",
                net |-> NoNet, progress |-> 0, ran |-> <<>>]
    /\ UNCHANGED <<system, envJavaHome, envPath, whichAvailable, programFiles,
                   profileWritable, current_java_path, profile, registry, baseEnv, resolver>>

\* cleanup() (java.py 287-293): rmtree of the download directory; an error
\* while removing is swallowed.
Cleanup(removed) ==
    /\ IF dlDirExists /\ removed
       THEN /\ dlDirExists' = FALSE
            /\ downloads' = [n \in DOMAIN downloads |-> -1]
       ELSE UNCHANGED <<dlDirExists, downloads>>
    /\ last' = [op |-> "cleanup", version |-> None, force |-> FALSE,
                status |-> None, msg |-> "", det |-> NoDet, request |-> FALSE, stage |-> "-",
                net |-> NoNet, progress |-> 0, ran |-> <<>>]
    /\ UNCHANGED <<system, envJavaHome, envPath, whichAvailable, programFiles, bin,
                   profileWritable, instDirExists, current_java_path, profile,
                   registry, baseEnv, resolver>>

\* -------------------------------------------------------------- new process
RECURSIVE Reverse(_)
Reverse(s) == IF s = <<>> THEN <<>> ELSE Append(Reverse(Tail(s)), s[1])

\* A later run of the script (java.py 295-297): a new process with a new
\* controller (java.py 31-36).  Started from a new login shell it sees the
\* exports of the profile file, or the variables setx stored; started from
\* the old shell it sees the old environment.
NewProcess(sourced) ==
    /\ last.op # "new_process"
    /\ current_java_path' = NoPath
    /\ envJavaHome' = IF ~sourced THEN baseEnv.javaHome
                      ELSE IF system = "windows"
                      THEN (IF registry # None THEN registry ELSE baseEnv.javaHome)
                      ELSE (IF profile # <<>> THEN profile[Len(profile)] ELSE baseEnv.javaHome)
    /\ envPath' = IF sourced /\ system # "windows"
                  THEN Reverse(profile) \o baseEnv.path
                  ELSE baseEnv.path
    /\ last' = [op |-> "new_process", version |-> None, force |-> FALSE,
                status |-> None, msg |-> "", det |-> NoDet, request |-> FALSE, stage |-> "-",
                net |-> NoNet, progress |-> 0, ran |-> <<>>]
    /\ UNCHANGED <<system, whichAvailable, programFiles, bin, profileWritable,
                   dlDirExists, downloads, instDirExists, profile, registry, baseEnv, resolver>>

\* ------------------------------------------------ extract_filename_from_url
\* File names and header values are written as the tuple of their
\* dot-separated parts, as the artifact names are; the empty string is the
\* tuple of one empty part.
EmptyName == <<"">>

\* No name (None), no value of a parameter, no header.
NoName == <<>>

\* At most this many parameters follow the disposition type of a
\* Content-Disposition header.
MaxParams == 2

\* unquote() on one part of a name: the percent escapes are decoded.
UnquotePart(p) == IF p = "my%20file" THEN "my file" ELSE p

unquote(name) == [i \in DOMAIN name |-> UnquotePart(name[i])]

\* name.strip().lower() of a parameter name (tools.py 31).
NormName(n) == IF n = " FileName" THEN "filename" ELSE n

\* str.lower() of an extension (tools.py 126).
Lower(p) == IF p = "ZIP" THEN "zip" ELSE p

\* re.sub(r'[^\w\-_.]', '_', ...) followed by re.sub(r'_+', '_', ...) on one
\* part of a name (tools.py 118-119).
CleanPart(p) == IF p = "my file" THEN "my_file" ELSE p

\* mimetypes.guess_extension without its leading dot (tools.py 132-134,
\* 143-145), None for a type it does not know.
guess_extension(mime) ==
    CASE mime = "application/zip" -> "zip"
      [] mime = "application/pdf" -> "pdf"
      [] OTHER -> None

\* The parameter names parse_content_disposition can return.
ParamNames == {"filename", "filename*", "size"}

NoParams == [n \in ParamNames |-> NoName]

\* The loop of parse_content_disposition over parts[i..] (tools.py 26-38): a
\* part without '=' is skipped, the name is stripped and lowercased, the
\* quotes around the value are removed, and a later part replaces an earlier
\* one of the same name.  A value is the tuple of its pieces between "'".
RECURSIVE ParseParts(_, _, _)
ParseParts(parts, i, params) ==
    IF i > Len(parts) THEN params
    ELSE IF ~parts[i].eq THEN ParseParts(parts, i + 1, params)
    ELSE ParseParts(parts, i + 1, [params EXCEPT ![NormName(parts[i].name)] = parts[i].value])

\* parse_content_disposition(header): the first part, the disposition type,
\* is skipped (tools.py 26).
parse_content_disposition(header) == ParseParts(header, 2, NoParams)

\* The RFC 5987 value encoding'language'value (tools.py 85-92): used when it
\* holds a quote character; split("'", 2) into fewer than three pieces raises
\* ValueError, which is passed over.
ExtendedName(value) ==
    IF value = NoName THEN NoName
    ELSE IF Len(value) < 2 THEN NoName
    ELSE IF Len(value) < 3 THEN NoName
    ELSE unquote(value[3])

\* A string that is None or empty is falsy.
Named(name) == name # NoName /\ name # EmptyName

\* The plain filename parameter (tools.py 95-96), a one-piece value.
PlainName(value) == IF value = NoName THEN NoName ELSE value[1]

\* A header tier that takes the plain filename before the RFC 5987 form.
HeaderNameOf_plain_first(extended, plain) ==
    IF Named(plain) THEN [name |-> plain, tier |-> "filename"]
    ELSE IF Named(extended) THEN [name |-> extended, tier |-> "filename*"]
    ELSE [name |-> plain, tier |-> "none"]

\* The file name the headers give (tools.py 78-96) for the parameters parsed,
\* with the tier that gave it.
HeaderNameOf(extended, plain) ==
    IF Named(extended) THEN [name |-> extended, tier |-> "filename*"]
    ELSE IF plain # NoName THEN [name |-> plain, tier |-> "filename"]
    ELSE [name |-> extended, tier |-> "none"]

HeaderNameFrom(params) ==
    HeaderNameOf(ExtendedName(params["filename*"]), PlainName(params["filename"]))

NoHeaderName == [name |-> NoName, tier |-> "none"]

\* The header tier (tools.py 71-100): nothing without check_headers, nothing
\* when the HEAD request fails or answers with an error status (the exception
\* is passed over), nothing without a Content-Disposition header.
HeaderName(check_headers, head) ==
    IF ~check_headers THEN NoHeaderName
    ELSE IF ~head.ok THEN NoHeaderName
    ELSE IF head.disposition = NoName THEN NoHeaderName
    ELSE HeaderNameFrom(parse_content_disposition(head.disposition))

\* response.headers.get('content-type', '') (tools.py 98), None when the
\* headers were not read.
ContentType(check_headers, head) ==
    IF check_headers /\ head.ok /\ head.type # None THEN head.type ELSE None

\* parsed.path.rstrip('/') (tools.py 104) on the path as the tuple of its
\* pieces between slashes: the trailing empty pieces go.
RECURSIVE RStripSlash(_)
RStripSlash(path) ==
    IF path = <<>> THEN <<>>
    ELSE IF path[Len(path)] = EmptyName THEN RStripSlash(SubSeq(path, 1, Len(path) - 1))
    ELSE path

\* The non-empty pieces of the path (tools.py 106).
NonEmptyPiece(seg) == seg # EmptyName

PathParts(path) == SelectSeq(path, NonEmptyPiece)

\* A path tier that takes only a segment with an extension.
PathNameOf_needs_extension(parts) ==
    IF parts = <<>> THEN NoName
    ELSE IF Len(parts[Len(parts)]) < 2 THEN NoName
    ELSE parts[Len(parts)]

\* The path tier on the stripped path (tools.py 105-108).
PathNameOf(parts) == IF parts = <<>> THEN NoName ELSE parts[Len(parts)]

PathName(url) == PathNameOf(PathParts(RStripSlash(url.path)))

\* The first 8 hex digits of the MD5 of the URL (tools.py 114).
UrlHash(url) == "0c1d2e3f"

\* The synthetic name (tools.py 112-115): the host without its port, or
\* "download" for a URL without one, then the time of the call and the hash
\* of the URL, joined by underscores.
SyntheticOn(base, timestamp, url) ==
    [i \in DOMAIN base |->
        IF i = Len(base) THEN base[i] \o "_" \o timestamp \o "_" \o UrlHash(url)
        ELSE base[i]]

SyntheticName(url, timestamp) ==
    SyntheticOn(IF url.host = EmptyName THEN <<"download">> ELSE url.host, timestamp, url)

\* The name chosen by the three tiers (tools.py 70-115), with the tier that
\* gave it.
ChooseName(h, pathName, url, timestamp) ==
    IF Named(h.name) THEN h
    ELSE IF Named(pathName) THEN [name |-> pathName, tier |-> "path"]
    ELSE [name |-> SyntheticName(url, timestamp), tier |-> "synthetic"]

\* The name before the last dot, cleaned (tools.py 118-119).
BaseName(name) ==
    IF Len(name) > 1 THEN [i \in 1..(Len(name) - 1) |-> CleanPart(name[i])]
    ELSE <<CleanPart(name[1])>>

\* The extension of the name itself (tools.py 125-128): what follows the last
\* dot, lowercased, when it has at most four characters.
OwnExtension(name) ==
    IF Len(name) > 1 /\ Len(Lower(name[Len(name)])) <= 4
    THEN Lower(name[Len(name)]) ELSE None

\* An extension that is None or empty is falsy.
HasExt(e) == e # None /\ e # ""

\* The extension named by a type= parameter of the query (tools.py 137-145).
QueryExtension(query) ==
    IF query = "type=application/pdf" THEN guess_extension("application/pdf") ELSE None

\* The chain of the extension (tools.py 122-149): the name's own, the content
\* type's, the query's, the default.
ExtensionOf(own, ctype, query, default_extension) ==
    IF HasExt(own) THEN own
    ELSE IF ctype # None /\ ctype # "" /\ HasExt(guess_extension(ctype))
    THEN guess_extension(ctype)
    ELSE IF HasExt(QueryExtension(query)) THEN QueryExtension(query)
    ELSE IF HasExt(default_extension) THEN default_extension
    ELSE None

\* The name returned (tools.py 152-155).
Combine(base_name, extension) ==
    IF HasExt(extension) THEN Append(base_name, extension) ELSE base_name

\* The result for the name chosen.
ResultOn(chosen, extension_of_chosen) ==
    [filename |-> chosen.name, tier |-> chosen.tier,
     name |-> Combine(BaseName(chosen.name), extension_of_chosen), raised |-> FALSE]

ResultFor(chosen, ctype, query, default_extension) ==
    ResultOn(chosen, ExtensionOf(OwnExtension(chosen.name), ctype, query, default_extension))

\* extract_filename_from_url(url, default_extension, check_headers) with the
\* answer head of the HEAD request and the time of the call.
extract_filename_from_url(url, default_extension, check_headers, head, timestamp) ==
    ResultFor(ChooseName(HeaderName(check_headers, head), PathName(url), url, timestamp),
              ContentType(check_headers, head), url.query, default_extension)

\* ------------------------------------------------- the calls of the resolver
\* The file names a header carries: plain, and percent-encoded with an upper
\* case extension.
PlainFile == <<"report", "pdf">>
EncodedFile == <<"my%20file", "ZIP">>
Charset == <<"UTF-8">>

Param(name, value) == [eq |-> TRUE, name |-> name, value |-> value]
Bare(token) == [eq |-> FALSE, name |-> token, value |-> NoName]

\* The parts that follow the disposition type: filename with a name and with
\* an empty value, filename* as encoding'language'value, with one quote only,
\* without a quote and with an empty name, and a part without '='.
ParamParts ==
    { Param("filename", <<PlainFile>>),
      Param(" FileName", <<EmptyName>>),
      Param("filename*", <<Charset, EmptyName, EncodedFile>>),
      Param("filename*", <<Charset, EncodedFile>>),
      Param("filename*", <<EncodedFile>>),
      Param("filename*", <<Charset, EmptyName, EmptyName>>),
      Bare("inline") }

\* The first part of a header: a disposition type, or a parameter put in its
\* place.
FirstParts == {Bare("attachment"), Param("filename", <<<<"first", "txt">>>>)}

Dispositions ==
    {<<f>> \o ps : f \in FirstParts,
                   ps \in UNION {[1..n -> ParamParts] : n \in 0..MaxParams}}

\* What the HEAD request meets: a failure (no connection, an error status),
\* or an answer with or without the two headers.
FailedHead == [ok |-> FALSE, disposition |-> NoName, type |-> None]

Heads ==
    {FailedHead} \cup
    [ok : {TRUE}, disposition : Dispositions \cup {NoName}, type : {None, "application/zip"}]

\* The paths "", "/", "/files/image" and "/files/archive.tar.gz/" as their
\* pieces between slashes.
UrlPaths ==
    { <<EmptyName>>,
      <<EmptyName, EmptyName>>,
      <<EmptyName, <<"files">>, <<"image">>>>,
      <<EmptyName, <<"files">>, <<"archive", "tar", "gz">>, EmptyName>> }

\* The URLs after unquote and urlparse: the host of the netloc, the path and
\* the query.
Urls ==
    [host : {<<"x", "test">>, EmptyName}, path : UrlPaths,
     query : {"", "download=true", "type=application/pdf"}]

Timestamp == "20240101_120000"

NoResult == [filename |-> NoName, tier |-> "-", name |-> NoName, raised |-> FALSE]

\* No call of the resolver is under examination.
IdleResolver ==
    [url |-> [host |-> EmptyName, path |-> <<EmptyName>>, query |-> ""],
     default_extension |-> None, check_headers |-> FALSE, head |-> FailedHead,
     done |-> TRUE, result |-> NoResult]

\* The calls examined; a call without check_headers makes no HEAD request.
ResolverCalls ==
    {c \in [url : Urls, default_extension : {None, "bin"}, check_headers : BOOLEAN,
            head : Heads, done : {FALSE}, result : {NoResult}] :
        ~c.check_headers => c.head = FailedHead}

\* ------------------------------------------------------------ specification
NoLast ==
    [op |-> "init", version |-> None, force |-> FALSE, status |-> None, msg |-> "",
     det |-> NoDet, request |-> FALSE, stage |-> "-", net |-> NoNet, progress |-> 0,
     ran |-> <<>>]

\* The state after JavaController() on a host where nothing has been
\* downloaded or installed by the controller yet (java.py 31-36).
FreshController ==
    /\ dlDirExists = FALSE
    /\ downloads = [n \in ArtifactNames(system) |-> -1]
    /\ instDirExists = (JdkChildren(bin) # {})
    /\ current_java_path = NoPath
    /\ profile = <<>>
    /\ registry = None
    /\ baseEnv = [javaHome |-> envJavaHome, path |-> envPath]
    /\ last = NoLast

\* The hosts the pipeline is run on: what JAVA_HOME is set to and the state
\* of that directory, whether /usr/bin is on PATH with a java in it, whether
\* which / where can be started, the state of the first candidate directory
\* of the platform, whether the profile file can be written, and the state of
\* a jdk-17 directory an earlier run left in the installation root.
Hosts ==
    { [javaHome |-> None,  ext |-> "nodir", path |-> <<>>,      usr |-> "nodir",  which |-> TRUE,  common |-> "nodir", writable |-> TRUE,  old |-> "nodir"],
      [javaHome |-> None,  ext |-> "nodir", path |-> <<>>,      usr |-> "nodir",  which |-> TRUE,  common |-> "nodir", writable |-> FALSE, old |-> "nodir"],
      [javaHome |-> "ext", ext |-> "v11",   path |-> <<>>,      usr |-> "nodir",  which |-> TRUE,  common |-> "nodir", writable |-> TRUE,  old |-> "nodir"],
      [javaHome |-> "ext", ext |-> "nobin", path |-> <<>>,      usr |-> "nodir",  which |-> TRUE,  common |-> "nodir", writable |-> TRUE,  old |-> "nodir"],
      [javaHome |-> "ext", ext |-> "nodir", path |-> <<>>,      usr |-> "nodir",  which |-> TRUE,  common |-> "nodir", writable |-> TRUE,  old |-> "nodir"],
      [javaHome |-> "ext", ext |-> "fail",  path |-> <<"usr">>, usr |-> "v17",    which |-> TRUE,  common |-> "nodir", writable |-> TRUE,  old |-> "nodir"],
      [javaHome |-> None,  ext |-> "nodir", path |-> <<"usr">>, usr |-> "noline", which |-> TRUE,  common |-> "nodir", writable |-> TRUE,  old |-> "nodir"],
      [javaHome |-> None,  ext |-> "nodir", path |-> <<>>,      usr |-> "nodir",  which |-> FALSE, common |-> "nodir", writable |-> TRUE,  old |-> "nodir"],
      [javaHome |-> None,  ext |-> "nodir", path |-> <<>>,      usr |-> "nodir",  which |-> TRUE,  common |-> "v1_8",  writable |-> TRUE,  old |-> "nodir"],
      [javaHome |-> None,  ext |-> "nodir", path |-> <<>>,      usr |-> "nodir",  which |-> TRUE,  common |-> "nodir", writable |-> TRUE,  old |-> "v17"] }

Init ==
    /\ system \in Systems
    /\ programFiles = IF system = "windows" THEN Range(ProgramFilesVars) ELSE {}
    /\ \E h \in Hosts :
          /\ profileWritable = h.writable
          /\ envJavaHome = h.javaHome
          /\ envPath = h.path
          /\ whichAvailable = h.which
          /\ bin = [l \in Locs(system) |->
                       IF l = "ext" THEN h.ext
                       ELSE IF l = "usr" THEN h.usr
                       ELSE IF l = TopDir("17") THEN h.old
                       ELSE IF l = get_common_java_paths(system, programFiles)[1] THEN h.common
                       ELSE "nodir"]
    /\ FreshController
    /\ resolver = IdleResolver

Next ==
    \/ \E v \in RequestVersions, f \in BOOLEAN, n \in NetOutcomes : DownloadJava(v, f, n)
    \/ \E f \in BOOLEAN, x \in InstallInputs : InstallJava(f, x)
    \/ \E r \in BOOLEAN : Cleanup(r)
    \/ \E s \in BOOLEAN : NewProcess(s)

Spec == Init /\ [][Next]_vars

\* ----------------------------------------------- the detector on every host
\* The states of the directory JAVA_HOME names, of the java of a PATH
\* directory, and of a candidate directory that exists.
HomeStates == {"nodir", "nobin", "noexec", "fail", "noline", "noquote", "v1", "v1_8", "v11_stdout"}

PathStates == {"noexec", "noline", "v1", "v17"}

CommonStates == {"nobin", "noexec", "fail", "v1_8"}

\* The hosts the detector is run on: every platform, JAVA_HOME unset or set
\* to a directory in any state, PATH with or without a java, which / where
\* present or not, and up to MaxCommonDirs candidate directories existing.
InitDetect ==
    /\ system \in Systems
    /\ programFiles \in (IF system = "windows" THEN SUBSET Range(ProgramFilesVars) ELSE {{}})
    /\ whichAvailable \in BOOLEAN
    /\ profileWritable = TRUE
    /\ envJavaHome \in {None, "ext"}
    /\ envPath \in (IF whichAvailable THEN {<<>>, <<"usr">>} ELSE {<<>>})
    /\ \E e \in (IF envJavaHome = None THEN {"nodir"} ELSE HomeStates),
          u \in (IF envPath = <<>> THEN {"nodir"} ELSE PathStates),
          dirs \in {d \in SUBSET Range(get_common_java_paths(system, programFiles)) :
                      Cardinality(d) <= MaxCommonDirs} :
          \E c \in [dirs -> CommonStates] :
             bin = [l \in Locs(system) |->
                       IF l = "ext" THEN e
                       ELSE IF l = "usr" THEN u
                       ELSE IF l \in dirs THEN c[l]
                       ELSE "nodir"]
    /\ FreshController
    /\ resolver = IdleResolver

\* One call of check_existing_java() on the host.
Detect ==
    /\ last.op = "init"
    /\ last' = [NoLast EXCEPT !.op = "check_existing_java", !.det = check_existing_java]
    /\ UNCHANGED <<hostVars, current_java_path, resolver>>

NextDetect == Detect

SpecDetect == InitDetect /\ [][NextDetect]_vars

\* ------------------------------------------------ the resolver on every call
\* An empty Linux host with a fresh controller and one call of the resolver
\* to be made.
InitResolve ==
    /\ system = "linux"
    /\ programFiles = {}
    /\ whichAvailable = TRUE
    /\ profileWritable = TRUE
    /\ envJavaHome = None
    /\ envPath = <<>>
    /\ bin = [l \in Locs(system) |-> "nodir"]
    /\ FreshController
    /\ resolver \in ResolverCalls

\* The call of extract_filename_from_url (tools.py 42-155).
ExtractFilename ==
    /\ ~resolver.done
    /\ resolver' = [resolver EXCEPT
                       !.done = TRUE,
                       !.result = extract_filename_from_url(resolver.url,
                                      resolver.default_extension, resolver.check_headers,
                                      resolver.head, Timestamp)]
    /\ last' = [NoLast EXCEPT !.op = "extract_filename_from_url"]
    /\ UNCHANGED <<hostVars, current_java_path>>

NextResolve == ExtractFilename

SpecResolve == InitResolve /\ [][NextResolve]_vars

\* ------------------------------------------------------------------ claims
StateVars == <<hostVars, current_java_path>>

IsCall == last.op \in {"download_java", "install_java"}

\* The call returned because detection found an installation and force was
\* not set.
Skipped == IsCall /\ ~last.force /\ ~last.det.raised /\ last.det.found

\* The file download_java was asked for.
RequestedFile == FileNameOf(JAVA_DOWNLOADS(system, last.version))

\* C1: on a host where detection finds nothing, with the version in the
\* catalog and a transfer that delivered the whole archive, download_java
\* returns success; and with the archive complete, a working binary unpacked
\* and the environment configured, install_java returns success.
C1_PipelineSucceeds ==
    /\ (/\ last.op = "download_java"
        /\ ~last.force /\ ~last.det.raised /\ ~last.det.found
        /\ system \in CatalogSystems /\ last.version \in CatalogVersions
        /\ last.request /\ downloads[RequestedFile] = BodyLen)
       => last.status = "True"
    /\ (/\ last.op = "install_java"
        /\ ~last.force /\ ~last.det.raised /\ ~last.det.found
        /\ last.stage \in {"verify", "done"}
        /\ \A d \in JdkChildren(bin) : get_java_version(bin[d]) \in CatalogVersions)
       => last.status = "True"

\* A toolchain has been installed: a working jdk directory under the
\* installation root, named by the profile file or by the persistent JAVA_HOME.
InstalledAndConfigured ==
    \E d \in JdkChildren(bin) :
        /\ get_java_version(bin[d]) \in CatalogVersions
        /\ (profile # <<>> /\ profile[Len(profile)] = d) \/ registry = d

\* C2: once a toolchain is installed and configured, a download_java without
\* force finds it and reports "already installed".
C2_RerunFindsInstallation ==
    (last.op = "download_java" /\ ~last.force /\ ~last.det.raised /\ InstalledAndConfigured)
        => (last.det.found /\ last.msg = "already installed")

\* C3: a call that stops because detection found an installation and force
\* is not set changes nothing: not the download directory, the files in it,
\* current_java_path, the installation root, the profile file, the persistent
\* variables or the process environment, and it makes no request.
C3_SkipChangesNothing ==
    [][ (/\ last'.op \in {"download_java", "install_java"}
         /\ ~last'.force /\ ~last'.det.raised /\ last'.det.found)
        => (UNCHANGED StateVars /\ ~last'.request) ]_vars

\* An install_java that skipped although an archive was ready to be unpacked.
C3_Witness ==
    /\ last.op = "install_java" /\ Skipped
    /\ current_java_path # NoPath /\ downloads[current_java_path] = BodyLen
    /\ JdkChildren(bin) = {}

\* C4 as stated: a skipped call returns the success value.
C4_SkipReturnsSuccess == Skipped => last.status = "True"

\* C4, amended: a skipped call returns the failure value False together with
\* the "already installed" message.
C4_SkipReturnsFalse == Skipped => (last.status = "False" /\ last.msg = "already installed")

C4_Witness == last.op = "download_java" /\ Skipped /\ last.det.version = "11"

\* C5: every call of download_java and install_java returns a (status,
\* message) pair; no exception reaches the caller.
C5_NeverRaises == IsCall => last.status # Raise

\* C6: a download_java that returns success never leaves current_java_path on
\* a file shorter than the archive.
C6_PartialNotTrusted ==
    (last.op = "download_java" /\ last.status = "True")
        => downloads[current_java_path] = BodyLen

\* The candidates of a host in probing order: the JAVA_HOME directory when it
\* is set and exists, the first java of PATH, and every candidate directory
\* of the platform that holds a bin/java.
HomeCandidate ==
    IF envJavaHome # None /\ bin[envJavaHome] # "nodir"
    THEN <<Probe(1, envJavaHome)>> ELSE <<>>

PathCandidate == IF whichAvailable /\ Which # None THEN <<Probe(2, Which)>> ELSE <<>>

CommonCandidates ==
    LET held == SelectSeq(get_common_java_paths(system, programFiles), HoldsJava) IN
    [i \in 1..Len(held) |-> Probe(3, held[i])]

Candidates == HomeCandidate \o PathCandidate \o CommonCandidates

Yields(c) == Truthy(get_java_version(bin[c.loc])) /\ get_java_version(bin[c.loc]) # Raise

\* C7: when check_existing_java returns, it has probed the candidates in the
\* order JAVA_HOME, PATH, candidate directories without leaving one out; a
\* found result is the first candidate that yields a version, and a not-found
\* result comes only after every candidate was probed and none yielded one.
C7_DetectionOrder ==
    (last.op = "check_existing_java" /\ ~last.det.raised) =>
        LET pr == last.det.probes IN
        /\ Len(pr) <= Len(Candidates)
        /\ \A i \in 1..Len(pr) : pr[i] = Candidates[i]
        /\ \A i \in 1..(Len(pr) - 1) : ~Yields(pr[i])
        /\ last.det.found =>
              /\ pr # <<>>
              /\ Yields(pr[Len(pr)])
              /\ last.det.path = pr[Len(pr)].loc
              /\ last.det.version = get_java_version(bin[last.det.path])
        /\ ~last.det.found =>
              /\ pr = Candidates
              /\ \A i \in 1..Len(pr) : ~Yields(pr[i])

\* Found in a candidate directory after JAVA_HOME and PATH were probed and
\* yielded nothing.
C7_Witness ==
    /\ last.op = "check_existing_java" /\ last.det.found
    /\ Len(last.det.probes) >= 3
    /\ last.det.probes[1].tier = 1 /\ last.det.probes[2].tier = 2
    /\ last.det.probes[Len(last.det.probes)].tier = 3

\* C8: with which / where present, check_existing_java returns whatever the
\* probes of the candidates do; a failing probe never makes it fail.
C8_DetectionNeverFails ==
    (last.op = "check_existing_java" /\ whichAvailable) => ~last.det.raised

Count(seq, d) == Cardinality({i \in DOMAIN seq : seq[i] = d})

\* C9: the profile file holds at most one JAVA_HOME export per toolchain
\* directory.
C9_OneExportPerToolchain == \A d \in JdkDirs : Count(profile, d) <= 1

\* C10: once install_java has run _set_environment_variables, the process's
\* JAVA_HOME is a toolchain directory of the installation root and its bin
\* directory is first on the process PATH.
C10_ProcessEnvUpdated ==
    (last.op = "install_java" /\ last.stage \in {"verify", "done"}) =>
        /\ envJavaHome \in JdkChildren(bin)
        /\ envPath # <<>> /\ envPath[1] = envJavaHome

\* The steps of the last install_java, as the set of their names.
Ran == Range(last.ran)

Configured == last.op = "install_java" /\ "_set_environment_variables" \in Ran

\* C11: when install_java comes to configure the environment, an
\* installation root without a jdk* child makes it fail with a "not found"
\* error and one with more than one jdk* child makes it fail with an
\* "ambiguous installation" error.
C11_ExactlyOneToolchain ==
    Configured =>
        /\ Cardinality(JdkChildren(bin)) = 0 =>
              (last.status = "False" /\ last.msg = "not found")
        /\ Cardinality(JdkChildren(bin)) > 1 =>
              (last.status = "False" /\ last.msg = "ambiguous installation")

IsPrefix(s, t) == Len(s) <= Len(t) /\ \A i \in 1..Len(s) : s[i] = t[i]

Extractors == {"_extract_zip", "_extract_tar_gz"}

\* The steps of a complete install_java in the order of the code, for each
\* extractor.
StageOrders ==
    {TermuxRan("pkg") \o <<e>> \o TermuxRan("chmod")
        \o <<"_set_environment_variables", "_verify_installation">> : e \in Extractors}

\* C12: the steps of every install_java are an initial part of extraction,
\* configuration, verification in this order, and success comes only after
\* all of them; a step that did not run left nothing behind; an archive that
\* cannot be unpacked stops the call in the extraction and a profile file
\* that cannot be written stops it in the configuration, each with status
\* False and the message of the exception of that step, and no later step
\* runs.
C12_StagesInOrder ==
    [][ last'.op = "install_java" =>
          /\ \E o \in StageOrders :
                /\ IsPrefix(last'.ran, o)
                /\ last'.status = "True" => last'.ran = o
          /\ Range(last'.ran) \cap Extractors = {} => UNCHANGED bin
          /\ "_set_environment_variables" \notin Range(last'.ran)
                => UNCHANGED <<profile, registry, envJavaHome, envPath>>
          /\ (/\ Range(last'.ran) \cap Extractors # {}
              /\ downloads[current_java_path] # BodyLen)
                => /\ last'.ran[Len(last'.ran)] \in Extractors
                   /\ last'.status = "False" /\ last'.msg = "Error installing Java"
                   /\ last'.stage = "extract"
          /\ ("_set_environment_variables" \in Range(last'.ran) /\ ~profileWritable)
                => /\ last'.ran[Len(last'.ran)] = "_set_environment_variables"
                   /\ last'.status = "False" /\ last'.msg = "Error installing Java"
                   /\ last'.stage = "configure"
                   /\ UNCHANGED <<profile, registry, envJavaHome, envPath>>
          /\ (last'.status = "False" /\ last'.stage = "verify")
                => last'.ran[Len(last'.ran)] = "_verify_installation"
      ]_vars

\* An install_java that unpacked the archive and stopped in the configuration.
C12_Witness ==
    /\ last.op = "install_java" /\ last.status = "False" /\ last.stage = "configure"
    /\ Len(last.ran) >= 2 /\ last.ran[Len(last.ran)] = "_set_environment_variables"
    /\ JdkChildren(bin) # {} /\ profile = <<>> /\ registry = None

\* The call l of download_java came past the detection: force was set, or
\* the detection returned without finding an installation.
PastDetection(l) == l.op = "download_java" /\ ~l.det.raised /\ ~l.det.found

\* The pair (platform, version) of the call l is in the catalog.
InCatalog(l) == system \in CatalogSystems /\ l.version \in CatalogVersions

\* C13: a download_java that comes to the transfer while a file named like
\* the last segment of the catalog URL is in the download directory does not
\* call download_file, leaves the files as they are, sets current_java_path
\* to that file and returns success.
C13_ExistingFileReused ==
    [][ (/\ PastDetection(last') /\ InCatalog(last')
         /\ downloads[FileNameOf(JAVA_DOWNLOADS(system, last'.version))] # -1)
        => /\ ~last'.request
           /\ downloads' = downloads
           /\ current_java_path' = FileNameOf(JAVA_DOWNLOADS(system, last'.version))
           /\ last'.status = "True" /\ last'.msg = "Successfully downloaded Java"
      ]_vars

\* A download_java that returned success on a file it did not fetch, after a
\* call of another kind.
C13_Witness ==
    /\ last.op = "download_java" /\ last.status = "True" /\ ~last.request
    /\ current_java_path = RequestedFile /\ downloads[RequestedFile] = BodyLen
    /\ envJavaHome # None

\* C14: a download_java for a pair (platform, version) that the catalog does
\* not hold, a platform without any entry included, returns the failure
\* value whenever it returns, makes no request, leaves the download
\* directory as it is and does not assign current_java_path.
C14_UnsupportedPairFails ==
    [][ (last'.op = "download_java" /\ ~InCatalog(last'))
        => /\ last'.status # Raise => last'.status = "False"
           /\ ~last'.request
           /\ UNCHANGED <<current_java_path, downloads, dlDirExists>>
      ]_vars

\* A forced download_java of a version outside the catalog, on a controller
\* that has downloaded an archive before.
C14_Witness ==
    /\ last.op = "download_java" /\ last.force /\ last.version \notin CatalogVersions
    /\ system \in CatalogSystems
    /\ last.msg = "Unsupported Java version"
    /\ current_java_path # NoPath

\* The call l of download_java made a request whose response was opened
\* with a Content-Length and broke before the body was complete.
BrokenTransfer(l) ==
    /\ l.op = "download_java" /\ l.request
    /\ l.net.connect /\ l.net.declared # -1 /\ l.net.fails

\* C15: when the transport breaks during the body, the destination file
\* holds exactly the bytes of the chunks that arrived (nothing removed,
\* nothing fetched again), download_java returns the failure value with the
\* error of the transport, and current_java_path is not assigned.
C15_PartialLeftInPlace ==
    [][ BrokenTransfer(last')
        => /\ downloads'[FileNameOf(JAVA_DOWNLOADS(system, last'.version))]
                 = Sum(last'.net.chunks)
           /\ last'.progress = Sum(last'.net.chunks)
           /\ last'.status = "False" /\ last'.msg = "Error downloading Java"
           /\ UNCHANGED current_java_path
      ]_vars

\* A transfer that broke after the first byte of the archive.
C15_Witness ==
    /\ BrokenTransfer(last) /\ last.net.chunks = <<1>>
    /\ downloads[RequestedFile] = 1 /\ current_java_path = NoPath

\* C16: cleanup changes nothing but the download directory and the files in
\* it: the installation root and the toolchains under it, the profile file,
\* the persistent variables, the process environment and current_java_path
\* stay as they are; it either removes the directory with everything in it
\* or, when the removal fails, leaves the directory; and in both cases it
\* returns None without raising.
C16_CleanupOnlyDownloads ==
    [][ last'.op = "cleanup"
        => /\ UNCHANGED <<system, envJavaHome, envPath, whichAvailable, programFiles, bin,
                          profileWritable, instDirExists, current_java_path, profile,
                          registry, baseEnv>>
           /\ \/ ~dlDirExists' /\ \A n \in DOMAIN downloads : downloads'[n] = -1
              \/ UNCHANGED <<dlDirExists, downloads>>
           /\ last'.status = None
      ]_vars

\* A cleanup that removed the downloads after a toolchain had been unpacked
\* and configured.
C16_Witness ==
    /\ last.op = "cleanup" /\ ~dlDirExists
    /\ current_java_path # NoPath /\ downloads[current_java_path] = -1
    /\ JdkChildren(bin) # {} /\ instDirExists
    /\ (profile # <<>> \/ registry # None)

\* The call made a request whose response delivered the whole body.
WholeBody == last.op = "download_java" /\ last.request /\ last.net.connect /\ ~last.net.fails

\* C17: after a download whose response declared the length of the body and
\* delivered all of it, in whatever chunks, the progress bar has been
\* advanced by that many bytes in total and the destination file has that
\* length.
C17_ProgressTotalsLength ==
    (WholeBody /\ last.net.declared = BodyLen)
        => /\ Sum(last.net.chunks) = BodyLen
           /\ last.progress = BodyLen
           /\ downloads[RequestedFile] = BodyLen

\* A body that arrived one byte at a time.
C17_Witness ==
    /\ WholeBody /\ last.net.declared = BodyLen
    /\ Len(last.net.chunks) = BodyLen

\* C18: a response without a Content-Length is downloaded all the same: the
\* body is written to the destination and the transfer completes without an
\* error.
C18_ChunkedResponseCompletes ==
    (WholeBody /\ last.net.declared = -1)
        => /\ downloads[RequestedFile] = BodyLen
           /\ last.msg # "Error downloading Java"

\* The last install_java came to the dispatch on the suffix: past the
\* detection, with a downloaded file on disk, and past the Termux packages.
AtDispatch ==
    /\ last.op = "install_java" /\ ~last.det.raised /\ ~last.det.found
    /\ current_java_path # NoPath /\ downloads[current_java_path] # -1
    /\ last.stage # "pkg"

\* What follows the last dot of the name of the downloaded file.
LastPart == current_java_path[Len(current_java_path)]

\* C19: the extractor install_java runs is decided by what follows the last
\* dot of the file name alone: zip extraction for "zip" and gzip-tar
\* extraction for "gz" (so for every .tar.gz), each unpacking a complete
\* archive under the installation root; for anything else the call returns
\* "Unsupported archive format" with status False and runs neither an
\* extractor nor the configuration nor the verification.
C19_DispatchOnSuffix ==
    AtDispatch =>
        /\ instDirExists
        /\ LastPart = "zip" => (Ran \cap Extractors = {"_extract_zip"})
        /\ LastPart = "gz" => (Ran \cap Extractors = {"_extract_tar_gz"})
        /\ (LastPart \in {"zip", "gz"} /\ downloads[current_java_path] = BodyLen)
              => TopDir(VersionOfArtifact(system, current_java_path)) \in JdkChildren(bin)
        /\ LastPart \notin {"zip", "gz"}
              => /\ last.status = "False" /\ last.msg = "Unsupported archive format"
                 /\ Ran \cap (Extractors \cup {"_set_environment_variables",
                                               "_verify_installation"}) = {}

\* A .tar.gz archive unpacked by the gzip-tar extractor.
C19_Witness ==
    /\ AtDispatch /\ Len(current_java_path) >= 3
    /\ current_java_path[Len(current_java_path) - 1] = "tar" /\ LastPart = "gz"
    /\ "_extract_tar_gz" \in Ran
    /\ bin[TopDir(VersionOfArtifact(system, current_java_path))] = "v11"

\* C20: a call with force set probes nothing and is neither stopped by an
\* installation nor by a failing probe: download_java with a pair of the
\* catalog comes to the transfer (the download directory and the file are
\* there afterwards) and install_java with a downloaded file comes to the
\* extraction, on every host.
C20_ForceProceeds ==
    (IsCall /\ last.force) =>
        /\ last.det = NoDet
        /\ last.status # Raise /\ last.msg # "already installed"
        /\ (last.op = "download_java" /\ InCatalog(last))
              => (dlDirExists /\ downloads[RequestedFile] # -1)
        /\ (/\ last.op = "install_java" /\ last.stage # "pkg"
            /\ current_java_path # NoPath /\ downloads[current_java_path] # -1)
              => Ran \cap Extractors # {}

\* A forced install_java that unpacked the archive on a host where the
\* detection finds the java of JAVA_HOME.
C20_Witness ==
    /\ last.op = "install_java" /\ last.force
    /\ check_existing_java.found /\ check_existing_java.path = "ext"
    /\ Ran \cap Extractors # {}
    /\ JdkChildren(bin) # {}

\* The call of the resolver has been made.
Resolved == last.op = "extract_filename_from_url" /\ resolver.done

\* The Content-Disposition header the call read, empty when it read none.
HeaderRead ==
    IF resolver.check_headers /\ resolver.head.ok THEN resolver.head.disposition ELSE NoName

\* The value of the last parameter of the header that is named n, the
\* disposition type left aside.
GivenValue(n) ==
    IF \E i \in 2..Len(HeaderRead) : HeaderRead[i].eq /\ NormName(HeaderRead[i].name) = n
    THEN HeaderRead[CHOOSE i \in 2..Len(HeaderRead) :
                       /\ HeaderRead[i].eq /\ NormName(HeaderRead[i].name) = n
                       /\ \A j \in (i + 1)..Len(HeaderRead) :
                             ~(HeaderRead[j].eq /\ NormName(HeaderRead[j].name) = n)]
                   .value
    ELSE NoName

\* The header gives a name in the RFC 5987 form / in the plain form.
GivesExtended == Len(GivenValue("filename*")) >= 3 /\ GivenValue("filename*")[3] # EmptyName

GivesPlain == GivenValue("filename") # NoName /\ GivenValue("filename")[1] # EmptyName

\* The URL has a non-empty path segment.
GivesSegment == \E i \in DOMAIN resolver.url.path : resolver.url.path[i] # EmptyName

LastSegment ==
    resolver.url.path[CHOOSE i \in DOMAIN resolver.url.path :
                         /\ resolver.url.path[i] # EmptyName
                         /\ \A j \in (i + 1)..Len(resolver.url.path) :
                               resolver.url.path[j] = EmptyName]

\* C21: the name the resolver works on comes from the first tier that gives
\* one: the filename* parameter of Content-Disposition, percent-decoded;
\* else the plain filename parameter; else the last non-empty segment of the
\* URL path; else the synthetic name of host, time and hash.
C21_TierPriority ==
    Resolved =>
        /\ resolver.result.tier = "filename*" <=> GivesExtended
        /\ resolver.result.tier = "filename" <=> (~GivesExtended /\ GivesPlain)
        /\ resolver.result.tier = "path" <=> (~GivesExtended /\ ~GivesPlain /\ GivesSegment)
        /\ resolver.result.tier = "synthetic"
              <=> (~GivesExtended /\ ~GivesPlain /\ ~GivesSegment)
        /\ resolver.result.tier = "filename*"
              => resolver.result.filename = unquote(GivenValue("filename*")[3])
        /\ resolver.result.tier = "filename"
              => resolver.result.filename = GivenValue("filename")[1]
        /\ resolver.result.tier = "path" => resolver.result.filename = LastSegment
        /\ resolver.result.tier = "synthetic"
              => resolver.result.filename = SyntheticName(resolver.url, Timestamp)

\* A call where all tiers had a name to give and the RFC 5987 form won.
C21_Witness ==
    /\ Resolved /\ GivesExtended /\ GivesPlain /\ GivesSegment
    /\ resolver.result.tier = "filename*"
    /\ resolver.result.filename = <<"my file", "ZIP">>
    /\ resolver.result.name = <<"my_file", "zip">>

\* The call for https://x.test/files/image?download=true alone: default
\* arguments, and an answer to the HEAD request without the two headers.
ImageUrlCall ==
    /\ Resolved
    /\ resolver.url = [host |-> <<"x", "test">>,
                       path |-> <<EmptyName, <<"files">>, <<"image">>>>,
                       query |-> "download=true"]
    /\ resolver.default_extension = None /\ resolver.check_headers
    /\ resolver.head.disposition = NoName /\ resolver.head.type = None

\* C22 as stated: for this URL the name is the synthetic one and the call
\* does not raise.
C22_ImageUrlSynthetic ==
    ImageUrlCall => (resolver.result.tier = "synthetic" /\ ~resolver.result.raised)

\* C22, amended: for this URL the path tier gives the name "image", which
\* is returned without an extension, and the call does not raise.
C22_ImageUrlPathSegment ==
    ImageUrlCall =>
        /\ resolver.result.tier = "path"
        /\ resolver.result.filename = <<"image">>
        /\ resolver.result.name = <<"image">>
        /\ ~resolver.result.raised

C22_Witness == ImageUrlCall /\ resolver.head.ok /\ resolver.result.name = <<"image">>

\* C23: an install_java on a controller that holds no downloaded file (no
\* download_java has returned success on it, so current_java_path is unset,
\* or the file it names is gone) runs no step and leaves the installation
\* root, the toolchains under it, the profile file, the persistent variables
\* and the process environment as they are; when it is not stopped by the
\* detection before, it returns status False with "No Java download found".
C23_NoInstallWithoutDownload ==
    [][ (/\ last'.op = "install_java"
         /\ (current_java_path = NoPath \/ downloads[current_java_path] = -1))
        => /\ last'.ran = <<>>
           /\ UNCHANGED <<instDirExists, bin, profile, registry, envJavaHome, envPath>>
           /\ (~last'.det.raised /\ ~last'.det.found)
                 => (last'.status = "False" /\ last'.msg = "No Java download found")
      ]_vars

\* An install_java after a cleanup removed the archive that a download_java
\* had recorded.
C23_Witness ==
    /\ last.op = "install_java" /\ last.msg = "No Java download found"
    /\ current_java_path # NoPath /\ downloads[current_java_path] = -1
    /\ ~dlDirExists /\ ~instDirExists

\* C24: current_java_path is unset or the file name of a catalog URL of the
\* platform, in the download directory; on one controller only a
\* download_java that returns success assigns it, to the file it asked for,
\* which is on disk at that moment; a download_java that does not return
\* success, install_java and cleanup leave it as it is.  (A new controller
\* starts with it unset.)
C24_RecordedArtifact ==
    [][ /\ current_java_path' = NoPath \/ current_java_path' \in ArtifactNames(system)
        /\ current_java_path' # current_java_path
              => \/ /\ last'.op = "download_java" /\ last'.status = "True"
                    /\ current_java_path'
                          = FileNameOf(JAVA_DOWNLOADS(system, last'.version))
                    /\ dlDirExists' /\ downloads'[current_java_path'] # -1
                 \/ last'.op = "new_process" /\ current_java_path' = NoPath
        /\ (last'.op = "download_java" /\ last'.status # "True")
              => UNCHANGED current_java_path
        /\ last'.op \in {"install_java", "cleanup"} => UNCHANGED current_java_path
      ]_vars

\* A download_java that made a request and failed on a controller that had
\* recorded the same file before.
C24_Witness ==
    /\ last.op = "download_java" /\ last.status = "False" /\ last.request
    /\ current_java_path = RequestedFile

\* C25: an install_java that returns failure from the configuration or from
\* the verification leaves the toolchain it unpacked under the installation
\* root; one that returns failure from the verification also leaves what the
\* configuration wrote: the export appended to the profile file, after the
\* entries that were there, or on Windows the persistent JAVA_HOME.
C25_NoRollback ==
    [][ (/\ last'.op = "install_java" /\ last'.status = "False"
         /\ last'.stage \in {"configure", "verify"})
        => /\ instDirExists'
           /\ bin'[TopDir(VersionOfArtifact(system, current_java_path))]
                 \notin {"nodir", "nobin"}
           /\ \A d \in JdkChildren(bin) : bin'[d] = bin[d]
           /\ (last'.stage = "verify" /\ system # "windows")
                 => /\ Len(profile') = Len(profile) + 1
                    /\ SubSeq(profile', 1, Len(profile)) = profile
                    /\ profile'[Len(profile')] \in JdkChildren(bin')
           /\ (last'.stage = "verify" /\ system = "windows")
                 => registry' \in JdkChildren(bin')
      ]_vars

\* A failed verification after the archive was unpacked into an empty
\* installation root and the export was written.
C25_Witness ==
    /\ last.op = "install_java" /\ last.status = "False" /\ last.stage = "verify"
    /\ last.ran[Len(last.ran)] = "_verify_installation"
    /\ profile = <<TopDir("11")>> /\ JdkChildren(bin) = {TopDir("11")}

====
